---- MODULE Spec2Model ----
(***************************************************************************)
(* Canary model serving (src/app.py): the CanaryModelService object with   *)
(* its two model slots and routing probability, and the request handlers   *)
(* that FastAPI runs on a thread pool.  Every read or write of an          *)
(* attribute of the shared service object is one step of the thread that   *)
(* performs it, so that the handlers interleave the way the threads do.    *)
(*                                                                         *)
(* Probabilities and random draws are counted in tenths: 10 is 1.0.        *)
(***************************************************************************)
EXTENDS Integers, FiniteSets, TLC

\* ------------------------------------------------------------------ bounds

\* Number of request threads.
NThreads == 2

\* Number of read-only handlers (/predict, /health, /) that run at the same
\* time.  They write nothing the threads share, so one of them never changes
\* what another one or a writer sees.
MaxReaders == 1

Threads == 1..NThreads

\* ------------------------------------------------------- values and inputs

\* Python's None, as an attribute holding a name or a version.
None == "None"

\* Python's None, as an attribute holding a model.
NoModel == [name |-> None, version |-> None]

\* The artifacts the MLflow registry can resolve: models:/<name>/<version>.
Registry == {<<"tracking-quickstart", "1">>, <<"other-model", "2">>}

\* The object mlflow.sklearn.load_model returns for a resolvable URI.  The
\* object carries no name of its own in the program; the model records which
\* artifact it was built from.
LoadedModel(model_name, version) == [name |-> model_name, version |-> version]

\* The (name, version) pairs the load requests carry: the registry's artifacts
\* and one it does not hold.
Identities == Registry \cup {<<"tracking-quickstart", "2">>}

\* The targets load_model is called with: its two slots and any other string.
Targets == {"current", "next", "staging"}

\* 0.0 and 1.0 in tenths.
ProbZero == 0
ProbOne == 10

\* What /set-canary-probability is sent, in tenths: -0.1, 0.0, 0.5, 1.0, 1.1.
Probabilities == {ProbZero - 1, ProbZero, 5, ProbOne, ProbOne + 1}

\* What random.random() returns, in tenths: values of [0.0, 1.0).
Draws == {0, 5}

\* The request body of /predict: a batch the predictor accepts or rejects.
Features == {"valid", "malformed"}

\* ------------------------------------------------------------------- state

VARIABLES
    current_model,          \* CanaryModelService.current_model
    next_model,             \* CanaryModelService.next_model
    current_model_name,
    current_model_version,
    next_model_name,
    next_model_version,
    canary_probability,
    phase,                  \* "constructed", "startup" or "serving"
    pc,                     \* pc[t]: where thread t is in its handler
    fr,                     \* fr[t]: the handler's arguments and locals
    ret,                    \* ret[t]: what the handler returned or raised
    hist                    \* history of the call that runs with no other beside it

service == <<current_model, next_model, current_model_name, current_model_version,
             next_model_name, next_model_version, canary_probability>>

vars == <<current_model, next_model, current_model_name, current_model_version,
          next_model_name, next_model_version, canary_probability, phase, pc, fr, ret,
          hist>>

\* The service object's attributes, as one value.
Snapshot ==
    [current_model |-> current_model, next_model |-> next_model,
     current_model_name |-> current_model_name,
     current_model_version |-> current_model_version,
     next_model_name |-> next_model_name, next_model_version |-> next_model_version,
     canary_probability |-> canary_probability]

NoFrame == [op |-> "none"]
NoReturn == [ok |-> FALSE, code |-> 0, detail |-> "none"]

\* An HTTP response: 200, or HTTPException(status_code=400, detail=...).
Ok200 == [ok |-> TRUE, code |-> 200, detail |-> ""]
Err400(detail) == [ok |-> FALSE, code |-> 400, detail |-> detail]
\* The value a method of the service returns to a caller inside the process.
Returned(ok) == [ok |-> ok, code |-> 0, detail |-> ""]

\* hist.alone: a handler is running and no other has run since it was entered;
\* hist.pre is then the service object as it was on entry.  hist.prev: the
\* handler that returned last, and whether it succeeded, while no second
\* handler has run beside it or beside its successor.
NoPrev == [op |-> "none", ok |-> FALSE]
NoSnapshot == [current_model |-> NoModel, next_model |-> NoModel,
               current_model_name |-> None, current_model_version |-> None,
               next_model_name |-> None, next_model_version |-> None,
               canary_probability |-> 0]
NoHist == [alone |-> FALSE, pre |-> NoSnapshot, prev |-> NoPrev]

\* model_service = CanaryModelService()
Init ==
    /\ current_model = NoModel
    /\ next_model = NoModel
    /\ current_model_name = None
    /\ current_model_version = None
    /\ next_model_name = None
    /\ next_model_version = None
    /\ canary_probability = ProbOne
    /\ phase = "constructed"
    /\ pc = [t \in Threads |-> "idle"]
    /\ fr = [t \in Threads |-> NoFrame]
    /\ ret = [t \in Threads |-> NoReturn]
    /\ hist = NoHist

\* ----------------------------------------------------------------- helpers

\* Thread t is at label.  A handler that has finished hands its response over
\* (Return) before any thread takes another step: Return touches nothing the
\* threads share, so this order loses no behaviour of the service object.
At(t, label) ==
    /\ pc[t] = label
    /\ \A u \in Threads : pc[u] # "done"

\* A request is taken by the first idle thread of the pool.
FirstIdle(t) ==
    /\ At(t, "idle")
    /\ \A u \in Threads : u < t => pc[u] # "idle"

\* Requests are served once the startup event has run.
CanServe(t) == phase = "serving" /\ FirstIdle(t)

ReadOps == {"predict", "health", "root"}
Readers == {u \in Threads : fr[u].op \in ReadOps}
CanRead(t) == CanServe(t) /\ Cardinality(Readers) < MaxReaders

\* No other thread is in a handler.
Alone(t) == \A u \in Threads \ {t} : pc[u] = "idle"

\* Thread t enters a handler.
Enter(t) ==
    hist' = IF Alone(t)
            THEN [alone |-> TRUE, pre |-> Snapshot, prev |-> hist.prev]
            ELSE NoHist

\* Thread t leaves its handler.
Leave(t) ==
    hist' = IF hist.alone
            THEN [alone |-> FALSE, pre |-> NoSnapshot,
                  prev |-> [op |-> fr[t].op, ok |-> ret[t].ok]]
            ELSE NoHist

Goto(t, label) == pc' = [pc EXCEPT ![t] = label]
SetFrame(t, f) == fr' = [fr EXCEPT ![t] = f]
\* The handler ends: it returns or raises r.
Finish(t, r) == pc' = [pc EXCEPT ![t] = "done"] /\ ret' = [ret EXCEPT ![t] = r]

\* -------------------------------------------------- set_canary_probability

\* The range check without its upper end.
ValidProbability_NoUpperBound(probability) == ProbZero <= probability

ValidProbability(probability) == ProbZero <= probability /\ probability <= ProbOne

\* POST /set-canary-probability, and the method it calls.
set_canary_probability(t, probability) ==
    /\ CanServe(t)
    /\ Enter(t)
    /\ SetFrame(t, [op |-> "set_canary_probability", probability |-> probability])
    /\ IF ValidProbability(probability)
       THEN /\ canary_probability' = probability
            /\ Finish(t, Ok200)
       ELSE /\ UNCHANGED canary_probability
            /\ Finish(t, Err400("Probability must be between 0.0 and 1.0"))
    /\ UNCHANGED <<current_model, next_model, current_model_name, current_model_version,
                   next_model_name, next_model_version, phase>>

\* -------------------------------------------------------------- load_model

LoadFrame(op, model_name, version, target) ==
    [op |-> op, model_name |-> model_name, version |-> version, target |-> target,
     model |-> NoModel, success_current |-> FALSE]

LoadOps == {"load_model", "update_model", "load_initial_models", "startup_event"}
InitialOps == {"load_initial_models", "startup_event"}

\* A caller inside the process calls service.load_model(model_name, version, target).
load_model(t, model_name, version, target) ==
    /\ CanServe(t)
    /\ Enter(t)
    /\ Goto(t, "lm_load")
    /\ SetFrame(t, LoadFrame("load_model", model_name, version, target))
    /\ UNCHANGED <<service, phase, ret>>

\* POST /update-model: load_model(request.model_name, request.version, "next").
update_model(t, model_name, version) ==
    /\ CanServe(t)
    /\ Enter(t)
    /\ Goto(t, "lm_load")
    /\ SetFrame(t, LoadFrame("update_model", model_name, version, "next"))
    /\ UNCHANGED <<service, phase, ret>>

\* service.load_initial_models(model_name, version): its first call of
\* load_model, into "current".
load_initial_models(t, model_name, version) ==
    /\ CanServe(t)
    /\ Enter(t)
    /\ Goto(t, "lm_load")
    /\ SetFrame(t, LoadFrame("load_initial_models", model_name, version, "current"))
    /\ UNCHANGED <<service, phase, ret>>

\* The startup event, run once before the server takes requests.
startup_event(t) ==
    /\ phase = "constructed"
    /\ FirstIdle(t)
    /\ Enter(t)
    /\ phase' = "startup"
    /\ Goto(t, "lm_load")
    /\ SetFrame(t, LoadFrame("startup_event", "tracking-quickstart", "1", "current"))
    /\ UNCHANGED <<service, ret>>

\* What the caller of load_model gets for its result.
LoadResult(op, success) ==
    CASE op = "update_model" ->
            IF success THEN Ok200 ELSE Err400("Failed to update next model")
      [] OTHER -> Returned(success)

\* load_model returns success.  load_initial_models goes on to its second
\* call, into "next", whatever the first returned, and returns the conjunction.
LoadReturn(t, success) ==
    IF fr[t].op \in InitialOps /\ fr[t].target = "current"
    THEN /\ Goto(t, "lm_load")
         /\ SetFrame(t, [fr[t] EXCEPT !.target = "next", !.model = NoModel,
                                      !.success_current = success])
         /\ UNCHANGED ret
    ELSE /\ Finish(t, LoadResult(fr[t].op,
                        IF fr[t].op \in InitialOps
                        THEN fr[t].success_current /\ success ELSE success))
         /\ UNCHANGED fr

\* A load that empties its slot before it stores the new model.
LoaderResolves_ClearsFirst(t) ==
    /\ At(t, "lm_load")
    /\ UNCHANGED hist
    /\ <<fr[t].model_name, fr[t].version>> \in Registry
    /\ Goto(t, "lm_store")
    /\ SetFrame(t, [fr[t] EXCEPT !.model = LoadedModel(fr[t].model_name, fr[t].version)])
    /\ IF fr[t].target = "current"
       THEN current_model' = NoModel /\ UNCHANGED next_model
       ELSE next_model' = NoModel /\ UNCHANGED current_model
    /\ UNCHANGED <<current_model_name, current_model_version, next_model_name,
                   next_model_version, canary_probability, phase, ret>>

\* model = mlflow.sklearn.load_model(model_uri), for an artifact the registry holds.
LoaderResolves(t) ==
    /\ At(t, "lm_load")
    /\ UNCHANGED hist
    /\ <<fr[t].model_name, fr[t].version>> \in Registry
    /\ Goto(t, "lm_store")
    /\ SetFrame(t, [fr[t] EXCEPT !.model = LoadedModel(fr[t].model_name, fr[t].version)])
    /\ UNCHANGED <<service, phase, ret>>

\* A failed load that empties the slot it was to fill.
LoaderFails_ClearsSlot(t) ==
    /\ At(t, "lm_load")
    /\ UNCHANGED hist
    /\ LoadReturn(t, FALSE)
    /\ IF fr[t].target = "current"
       THEN current_model' = NoModel /\ UNCHANGED next_model
       ELSE next_model' = NoModel /\ UNCHANGED current_model
    /\ UNCHANGED <<current_model_name, current_model_version, next_model_name,
                   next_model_version, canary_probability, phase>>

\* mlflow.sklearn.load_model raises (no such artifact, or the tracking server
\* cannot be reached): the except clause returns False.
LoaderFails(t) ==
    /\ At(t, "lm_load")
    /\ UNCHANGED hist
    /\ LoadReturn(t, FALSE)
    /\ UNCHANGED <<service, phase>>

\* A load that takes any target other than 'current' for 'next'.
StoreModel_DefaultsToNext(t) ==
    /\ At(t, "lm_store")
    /\ UNCHANGED hist
    /\ IF fr[t].target = "current"
       THEN current_model' = fr[t].model /\ UNCHANGED next_model
       ELSE next_model' = fr[t].model /\ UNCHANGED current_model
    /\ Goto(t, "lm_name")
    /\ UNCHANGED <<current_model_name, current_model_version, next_model_name,
                   next_model_version, canary_probability, phase, fr, ret>>

\* self.current_model = model / self.next_model = model; any other target
\* raises ValueError, which the except clause turns into False.
StoreModel(t) ==
    /\ At(t, "lm_store")
    /\ UNCHANGED hist
    /\ CASE fr[t].target = "current" ->
              /\ current_model' = fr[t].model
              /\ Goto(t, "lm_name")
              /\ UNCHANGED <<next_model, fr, ret>>
         [] fr[t].target = "next" ->
              /\ next_model' = fr[t].model
              /\ Goto(t, "lm_name")
              /\ UNCHANGED <<current_model, fr, ret>>
         [] OTHER ->
              /\ LoadReturn(t, FALSE)
              /\ UNCHANGED <<current_model, next_model>>
    /\ UNCHANGED <<current_model_name, current_model_version, next_model_name,
                   next_model_version, canary_probability, phase>>

\* The name stored into the other slot's attribute.
StoreName_WrongSlot(t) ==
    /\ At(t, "lm_name")
    /\ UNCHANGED hist
    /\ IF fr[t].target = "current"
       THEN next_model_name' = fr[t].model_name /\ UNCHANGED current_model_name
       ELSE current_model_name' = fr[t].model_name /\ UNCHANGED next_model_name
    /\ Goto(t, "lm_version")
    /\ UNCHANGED <<current_model, next_model, current_model_version, next_model_version,
                   canary_probability, phase, fr, ret>>

\* self.current_model_name = model_name / self.next_model_name = model_name
StoreName(t) ==
    /\ At(t, "lm_name")
    /\ UNCHANGED hist
    /\ IF fr[t].target = "current"
       THEN current_model_name' = fr[t].model_name /\ UNCHANGED next_model_name
       ELSE next_model_name' = fr[t].model_name /\ UNCHANGED current_model_name
    /\ Goto(t, "lm_version")
    /\ UNCHANGED <<current_model, next_model, current_model_version, next_model_version,
                   canary_probability, phase, fr, ret>>

\* A load that returns without recording the version.
StoreVersion_Skipped(t) ==
    /\ At(t, "lm_version")
    /\ UNCHANGED hist
    /\ LoadReturn(t, TRUE)
    /\ UNCHANGED <<service, phase>>

\* self.current_model_version = version / self.next_model_version = version;
\* return True
StoreVersion(t) ==
    /\ At(t, "lm_version")
    /\ UNCHANGED hist
    /\ IF fr[t].target = "current"
       THEN current_model_version' = fr[t].version /\ UNCHANGED next_model_version
       ELSE next_model_version' = fr[t].version /\ UNCHANGED current_model_version
    /\ LoadReturn(t, TRUE)
    /\ UNCHANGED <<current_model, next_model, current_model_name, next_model_name,
                   canary_probability, phase>>

\* ------------------------------------------------------- accept_next_model

\* accept_next_model without its test for an empty next slot.
accept_next_model_Unchecked(t) ==
    /\ CanServe(t)
    /\ Enter(t)
    /\ SetFrame(t, [op |-> "accept_next_model"])
    /\ Goto(t, "am_model")
    /\ UNCHANGED <<service, phase, ret>>

\* POST /accept-next-model: if self.next_model is None: return False
accept_next_model(t) ==
    /\ CanServe(t)
    /\ Enter(t)
    /\ SetFrame(t, [op |-> "accept_next_model"])
    /\ IF next_model = NoModel
       THEN Finish(t, Err400("No next model to accept"))
       ELSE Goto(t, "am_model") /\ UNCHANGED ret
    /\ UNCHANGED <<service, phase>>

\* self.current_model = self.next_model: the attribute is read ...
AcceptReadModel(t) ==
    /\ At(t, "am_model")
    /\ UNCHANGED hist
    /\ Goto(t, "am_model_w")
    /\ SetFrame(t, [op |-> "accept_next_model", value |-> next_model])
    /\ UNCHANGED <<service, phase, ret>>

\* A promotion that exchanges the two models instead of copying.
AcceptWriteModel_Swaps(t) ==
    /\ At(t, "am_model_w")
    /\ UNCHANGED hist
    /\ current_model' = fr[t].value
    /\ next_model' = current_model
    /\ Goto(t, "am_name")
    /\ UNCHANGED <<current_model_name, current_model_version, next_model_name,
                   next_model_version, canary_probability, phase, fr, ret>>

\* ... and then stored.
AcceptWriteModel(t) ==
    /\ At(t, "am_model_w")
    /\ UNCHANGED hist
    /\ current_model' = fr[t].value
    /\ Goto(t, "am_name")
    /\ UNCHANGED <<next_model, current_model_name, current_model_version, next_model_name,
                   next_model_version, canary_probability, phase, fr, ret>>

\* A promotion that copies the current name onto itself.
AcceptReadName_Current(t) ==
    /\ At(t, "am_name")
    /\ UNCHANGED hist
    /\ Goto(t, "am_name_w")
    /\ SetFrame(t, [op |-> "accept_next_model", value |-> current_model_name])
    /\ UNCHANGED <<service, phase, ret>>

\* self.current_model_name = self.next_model_name
AcceptReadName(t) ==
    /\ At(t, "am_name")
    /\ UNCHANGED hist
    /\ Goto(t, "am_name_w")
    /\ SetFrame(t, [op |-> "accept_next_model", value |-> next_model_name])
    /\ UNCHANGED <<service, phase, ret>>

AcceptWriteName(t) ==
    /\ At(t, "am_name_w")
    /\ UNCHANGED hist
    /\ current_model_name' = fr[t].value
    /\ Goto(t, "am_version")
    /\ UNCHANGED <<current_model, next_model, current_model_version, next_model_name,
                   next_model_version, canary_probability, phase, fr, ret>>

\* self.current_model_version = self.next_model_version
AcceptReadVersion(t) ==
    /\ At(t, "am_version")
    /\ UNCHANGED hist
    /\ Goto(t, "am_version_w")
    /\ SetFrame(t, [op |-> "accept_next_model", value |-> next_model_version])
    /\ UNCHANGED <<service, phase, ret>>

\* The last store of accept_next_model, emptying the next slot as well.
AcceptWriteVersion_Demotes(t) ==
    /\ At(t, "am_version_w")
    /\ UNCHANGED hist
    /\ current_model_version' = fr[t].value
    /\ next_model' = NoModel
    /\ Finish(t, Ok200)
    /\ UNCHANGED <<current_model, current_model_name, next_model_name,
                   next_model_version, canary_probability, phase, fr>>

\* ... return True
AcceptWriteVersion(t) ==
    /\ At(t, "am_version_w")
    /\ UNCHANGED hist
    /\ current_model_version' = fr[t].value
    /\ Finish(t, Ok200)
    /\ UNCHANGED <<current_model, next_model, current_model_name, next_model_name,
                   next_model_version, canary_probability, phase, fr>>

\* ----------------------------------------------------------------- predict

\* The draw compared with <= instead of <.
UseCurrent_Inclusive(r, probability) == r <= probability

\* use_current = random.random() < self.canary_probability
UseCurrent(r, probability) == r < probability

\* The branch without its test for an empty next slot.
ChosenSlot_NoFallback(use_current, next) == IF use_current THEN "current" ELSE "next"

\* if use_current or self.next_model is None: the current slot; else: the next
ChosenSlot(use_current, next) ==
    IF use_current \/ next = NoModel THEN "current" ELSE "next"

ModelOf(slot) == IF slot = "current" THEN current_model ELSE next_model
NameOf(slot) == IF slot = "current" THEN current_model_name ELSE next_model_name
VersionOf(slot) == IF slot = "current" THEN current_model_version ELSE next_model_version

\* predict without its check of the current slot.
predict_Unchecked(t) ==
    /\ CanRead(t)
    /\ Enter(t)
    /\ SetFrame(t, [op |-> "predict"])
    /\ Goto(t, "pr_draw")
    /\ UNCHANGED <<service, phase, ret>>

\* POST /predict: if self.current_model is None: raise HTTPException(400, ...)
predict(t) ==
    /\ CanRead(t)
    /\ Enter(t)
    /\ SetFrame(t, [op |-> "predict"])
    /\ IF current_model = NoModel
       THEN Finish(t, Err400("No current model loaded"))
       ELSE Goto(t, "pr_draw") /\ UNCHANGED ret
    /\ UNCHANGED <<service, phase>>

\* use_current = random.random() < self.canary_probability
PredictDraw(t, r) ==
    /\ At(t, "pr_draw")
    /\ UNCHANGED hist
    /\ Goto(t, "pr_branch")
    /\ SetFrame(t, fr[t] @@ [r |-> r, use_current |-> UseCurrent(r, canary_probability)])
    /\ UNCHANGED <<service, phase, ret>>

\* if use_current or self.next_model is None:
PredictBranch(t) ==
    /\ At(t, "pr_branch")
    /\ UNCHANGED hist
    /\ Goto(t, "pr_infer")
    /\ SetFrame(t, [op |-> "predict", r |-> fr[t].r,
                    slot |-> ChosenSlot(fr[t].use_current, next_model)])
    /\ UNCHANGED <<service, phase, ret>>

\* An inference that unloads the next model when it fails.
PredictInfer_DropsModel(t, features) ==
    /\ At(t, "pr_infer")
    /\ UNCHANGED hist
    /\ IF ModelOf(fr[t].slot) = NoModel \/ features = "malformed"
       THEN /\ Finish(t, Err400("Prediction error"))
            /\ SetFrame(t, fr[t] @@ [features |-> features])
            /\ next_model' = NoModel
       ELSE /\ Goto(t, "pr_name")
            /\ SetFrame(t, fr[t] @@ [features |-> features, served |-> ModelOf(fr[t].slot)])
            /\ UNCHANGED <<ret, next_model>>
    /\ UNCHANGED <<current_model, current_model_name, current_model_version,
                   next_model_name, next_model_version, canary_probability, phase>>

\* predictions = self.<slot>_model.predict(features_array): the attribute is
\* read and the object it holds runs the inference.  A None there, or a batch
\* the predictor rejects, raises, and the except clause answers 400.
PredictInfer(t, features) ==
    /\ At(t, "pr_infer")
    /\ UNCHANGED hist
    /\ IF ModelOf(fr[t].slot) = NoModel \/ features = "malformed"
       THEN /\ Finish(t, Err400("Prediction error"))
            /\ SetFrame(t, fr[t] @@ [features |-> features])
       ELSE /\ Goto(t, "pr_name")
            /\ SetFrame(t, fr[t] @@ [features |-> features, served |-> ModelOf(fr[t].slot)])
            /\ UNCHANGED ret
    /\ UNCHANGED <<service, phase>>

\* model_used = f"<slot> ({self.<slot>_model_name} v{self.<slot>_model_version})":
\* the name is read ...
PredictName(t) ==
    /\ At(t, "pr_name")
    /\ UNCHANGED hist
    /\ Goto(t, "pr_version")
    /\ SetFrame(t, fr[t] @@ [name |-> NameOf(fr[t].slot)])
    /\ UNCHANGED <<service, phase, ret>>

\* ... then the version; return predictions.tolist(), model_used
PredictVersion(t) ==
    /\ At(t, "pr_version")
    /\ UNCHANGED hist
    /\ SetFrame(t, fr[t] @@ [model_used |-> [slot |-> fr[t].slot, name |-> fr[t].name,
                                             version |-> VersionOf(fr[t].slot)]])
    /\ Finish(t, Ok200)
    /\ UNCHANGED <<service, phase>>

\* ------------------------------------------------------- status: /health, /

\* GET /health: the response dict is built entry by entry, each entry a read
\* of the service object.  "current_model_loaded": current_model is not None
health(t) ==
    /\ CanRead(t)
    /\ Enter(t)
    /\ Goto(t, "st_next_loaded")
    /\ SetFrame(t, [op |-> "health", current_model_loaded |-> current_model # NoModel])
    /\ UNCHANGED <<service, phase, ret>>

\* "next_model_loaded": model_service.next_model is not None
StatusNextLoaded(t) ==
    /\ At(t, "st_next_loaded")
    /\ UNCHANGED hist
    /\ Goto(t, "st_current_name")
    /\ SetFrame(t, fr[t] @@ [next_model_loaded |-> next_model # NoModel])
    /\ UNCHANGED <<service, phase, ret>>

\* GET /: its first entry read of the service object is the current name.
root(t) ==
    /\ CanRead(t)
    /\ Enter(t)
    /\ Goto(t, "st_current_version")
    /\ SetFrame(t, [op |-> "root", current_name |-> current_model_name])
    /\ UNCHANGED <<service, phase, ret>>

\* "current_model": {"name": model_service.current_model_name,
StatusCurrentName(t) ==
    /\ At(t, "st_current_name")
    /\ UNCHANGED hist
    /\ Goto(t, "st_current_version")
    /\ SetFrame(t, fr[t] @@ [current_name |-> current_model_name])
    /\ UNCHANGED <<service, phase, ret>>

\*                   "version": model_service.current_model_version}
StatusCurrentVersion(t) ==
    /\ At(t, "st_current_version")
    /\ UNCHANGED hist
    /\ Goto(t, "st_next_name")
    /\ SetFrame(t, fr[t] @@ [current_version |-> current_model_version])
    /\ UNCHANGED <<service, phase, ret>>

\* "next_model": {"name": model_service.next_model_name,
StatusNextName(t) ==
    /\ At(t, "st_next_name")
    /\ UNCHANGED hist
    /\ Goto(t, "st_next_version")
    /\ SetFrame(t, fr[t] @@ [next_name |-> next_model_name])
    /\ UNCHANGED <<service, phase, ret>>

\*                "version": model_service.next_model_version}
StatusNextVersion(t) ==
    /\ At(t, "st_next_version")
    /\ UNCHANGED hist
    /\ Goto(t, "st_probability")
    /\ SetFrame(t, fr[t] @@ [next_version |-> next_model_version])
    /\ UNCHANGED <<service, phase, ret>>

\* "canary_probability": model_service.canary_probability; the dict is returned
StatusProbability(t) ==
    /\ At(t, "st_probability")
    /\ UNCHANGED hist
    /\ SetFrame(t, fr[t] @@ [probability |-> canary_probability])
    /\ Finish(t, Ok200)
    /\ UNCHANGED <<service, phase>>

\* ------------------------------------------------------------------ return

\* The response is sent and the thread goes back to the pool.  The server
\* starts to serve once the startup event has returned.
Return(t) ==
    /\ pc[t] = "done"
    /\ Leave(t)
    /\ pc' = [pc EXCEPT ![t] = "idle"]
    /\ fr' = [fr EXCEPT ![t] = NoFrame]
    /\ ret' = [ret EXCEPT ![t] = NoReturn]
    /\ phase' = IF phase = "startup" THEN "serving" ELSE phase
    /\ UNCHANGED service

\* ---------------------------------------------------------- specifications

\* The steps of a handler once it has been entered.
Step(t) ==
    \/ LoaderResolves(t)
    \/ LoaderFails(t)
    \/ StoreModel(t)
    \/ StoreName(t)
    \/ StoreVersion(t)
    \/ AcceptReadModel(t)
    \/ AcceptWriteModel(t)
    \/ AcceptReadName(t)
    \/ AcceptWriteName(t)
    \/ AcceptReadVersion(t)
    \/ AcceptWriteVersion(t)
    \/ \E r \in Draws : PredictDraw(t, r)
    \/ PredictBranch(t)
    \/ \E f \in Features : PredictInfer(t, f)
    \/ PredictName(t)
    \/ PredictVersion(t)
    \/ StatusNextLoaded(t)
    \/ StatusCurrentName(t)
    \/ StatusCurrentVersion(t)
    \/ StatusNextName(t)
    \/ StatusNextVersion(t)
    \/ StatusProbability(t)
    \/ Return(t)

\* The server: the startup event, then the HTTP handlers, which run on the
\* thread pool and interleave at every step.
Next ==
    \E t \in Threads :
        \/ startup_event(t)
        \/ \E p \in Probabilities : set_canary_probability(t, p)
        \/ \E id \in Identities : update_model(t, id[1], id[2])
        \/ accept_next_model(t)
        \/ predict(t)
        \/ health(t)
        \/ root(t)
        \/ Step(t)

Spec == Init /\ [][Next]_vars

\* The service object used one call at a time: the HTTP handlers and the
\* methods of CanaryModelService called directly, each running to its end
\* before the next begins.
NextSeq ==
    \E t \in Threads :
        \/ Alone(t) /\ startup_event(t)
        \/ Alone(t) /\ \E p \in Probabilities : set_canary_probability(t, p)
        \/ Alone(t) /\ \E id \in Identities, g \in Targets : load_model(t, id[1], id[2], g)
        \/ Alone(t) /\ \E id \in Identities : update_model(t, id[1], id[2])
        \/ Alone(t) /\ \E id \in Identities : load_initial_models(t, id[1], id[2])
        \/ Alone(t) /\ accept_next_model(t)
        \/ Alone(t) /\ predict(t)
        \/ Alone(t) /\ health(t)
        \/ Alone(t) /\ root(t)
        \/ Alone(t) /\ Step(t)

SpecSeq == Init /\ [][NextSeq]_vars

\* ------------------------------------------------------------------ claims

\* Thread t has finished handler op.
Done(t, op) == pc[t] = "done" /\ fr[t].op = op
\* ... and no other handler ran while it did: hist.pre is the state it began in.
RanAlone(t, op) == Done(t, op) /\ hist.alone

InRange(p) == p >= 0 /\ p <= 10

\* What a finished /health or / reports, against a state of the service object.
ReportsState(t, s) ==
    /\ fr[t].current_name = s.current_model_name
    /\ fr[t].current_version = s.current_model_version
    /\ fr[t].next_name = s.next_model_name
    /\ fr[t].next_version = s.next_model_version
    /\ fr[t].probability = s.canary_probability
    /\ fr[t].op = "health" =>
          /\ fr[t].current_model_loaded = (s.current_model # NoModel)
          /\ fr[t].next_model_loaded = (s.next_model # NoModel)

\* A status call that runs alone reports the state it was called in.
StatusReportsPre ==
    \A t \in Threads :
        (RanAlone(t, "health") \/ RanAlone(t, "root")) => ReportsState(t, hist.pre)

\* C1: set_canary_probability(p) with 0.0 <= p <= 1.0 succeeds and leaves the
\* probability at exactly p, which the status then reports; with p outside
\* the range it answers 400 "Probability must be between 0.0 and 1.0" and the
\* probability and both slots are what they were before the call.
C1_SetProbability ==
    /\ \A t \in Threads :
          RanAlone(t, "set_canary_probability") =>
              IF InRange(fr[t].probability)
              THEN /\ ret[t] = Ok200
                   /\ Snapshot = [hist.pre EXCEPT !.canary_probability = fr[t].probability]
              ELSE /\ ret[t] = Err400("Probability must be between 0.0 and 1.0")
                   /\ Snapshot = hist.pre
    /\ StatusReportsPre

\* A status call follows a successful set_canary_probability(0.5) and reports 0.5.
C1_Witness ==
    \E t \in Threads :
        /\ RanAlone(t, "health")
        /\ hist.prev = [op |-> "set_canary_probability", ok |-> TRUE]
        /\ fr[t].probability = 5

\* What predict reports for a slot of state s.
ModelUsed(slot, s) ==
    IF slot = "current"
    THEN [slot |-> "current", name |-> s.current_model_name,
          version |-> s.current_model_version]
    ELSE [slot |-> "next", name |-> s.next_model_name, version |-> s.next_model_version]

\* C2: with both slots loaded, a predict (of a batch the predictor accepts)
\* whose draw is r succeeds; it is served by the current model and reports
\* "current" with the current identity if r < p, and otherwise is served by
\* the next model and reports "next" with the next identity.
C2_Routing ==
    \A t \in Threads :
        /\ RanAlone(t, "predict")
        /\ hist.pre.current_model # NoModel
        /\ hist.pre.next_model # NoModel
        /\ fr[t].features = "valid"
        => /\ ret[t] = Ok200
           /\ IF fr[t].r < hist.pre.canary_probability
              THEN /\ fr[t].served = hist.pre.current_model
                   /\ fr[t].model_used = ModelUsed("current", hist.pre)
              ELSE /\ fr[t].served = hist.pre.next_model
                   /\ fr[t].model_used = ModelUsed("next", hist.pre)

\* A draw of 0.5 under probability 0.5 is served by a next model that differs
\* from the current one.
C2_Witness ==
    \E t \in Threads :
        /\ RanAlone(t, "predict")
        /\ ret[t].ok
        /\ fr[t].r = 5
        /\ hist.pre.canary_probability = 5
        /\ fr[t].model_used.slot = "next"
        /\ hist.pre.current_model # NoModel
        /\ hist.pre.current_model # hist.pre.next_model

\* C3: with the current slot loaded and the next slot empty, every predict,
\* whatever the probability and the draw, is served by the current model and
\* labelled "current"; it never fails for lack of a model (a batch the
\* predictor rejects is answered "Prediction error").
C3_Fallback ==
    \A t \in Threads :
        /\ RanAlone(t, "predict")
        /\ hist.pre.current_model # NoModel
        /\ hist.pre.next_model = NoModel
        => IF fr[t].features = "valid"
           THEN /\ ret[t] = Ok200
                /\ fr[t].served = hist.pre.current_model
                /\ fr[t].model_used = ModelUsed("current", hist.pre)
           ELSE ret[t] = Err400("Prediction error")

\* Probability 0.0, next slot empty: the predict is served by current.
C3_Witness ==
    \E t \in Threads :
        /\ RanAlone(t, "predict")
        /\ ret[t].ok
        /\ hist.pre.canary_probability = 0
        /\ hist.pre.next_model = NoModel
        /\ fr[t].model_used.slot = "current"

\* C4: a successful accept_next_model sets the current slot's model, name and
\* version to those of the next slot and changes nothing else: the next slot
\* is not emptied, and both slots hold the same model afterwards.
C4_Promote ==
    \A t \in Threads :
        RanAlone(t, "accept_next_model") /\ ret[t].ok =>
            /\ Snapshot = [hist.pre EXCEPT
                              !.current_model = hist.pre.next_model,
                              !.current_model_name = hist.pre.next_model_name,
                              !.current_model_version = hist.pre.next_model_version]
            /\ next_model # NoModel
            /\ current_model = next_model

\* A promote that replaced a loaded current model by a different one.
C4_Witness ==
    \E t \in Threads :
        /\ RanAlone(t, "accept_next_model")
        /\ ret[t].ok
        /\ hist.pre.current_model # NoModel
        /\ hist.pre.current_model # hist.pre.next_model
        /\ current_model = hist.pre.next_model

\* C5: accept_next_model called with the next slot empty answers
\* 400 "No next model to accept" and changes nothing.
C5_PromoteEmpty ==
    \A t \in Threads :
        RanAlone(t, "accept_next_model") /\ hist.pre.next_model = NoModel =>
            /\ ret[t] = Err400("No next model to accept")
            /\ Snapshot = hist.pre

\* A refused promote, with the current slot loaded.
C5_Witness ==
    \E t \in Threads :
        /\ RanAlone(t, "accept_next_model")
        /\ hist.pre.next_model = NoModel
        /\ hist.pre.current_model # NoModel
        /\ ~ret[t].ok

\* C6: when the loader fails for a load_model or /update-model call, the call
\* reports failure and the service object is exactly as before; and a load
\* that follows a failed one and whose artifact the loader resolves succeeds.
C6_LoadFailure ==
    \A t \in Threads :
        \A op \in {"load_model", "update_model"} :
            /\ RanAlone(t, op) /\ fr[t].model = NoModel =>
                  /\ ~ret[t].ok
                  /\ op = "update_model" => ret[t] = Err400("Failed to update next model")
                  /\ Snapshot = hist.pre
            /\ /\ RanAlone(t, op)
               /\ hist.prev.op \in {"load_model", "update_model"}
               /\ ~hist.prev.ok
               /\ fr[t].model # NoModel
               /\ fr[t].target \in {"current", "next"}
               => /\ ret[t].ok
                  /\ ModelOf(fr[t].target) = fr[t].model

\* An /update-model that succeeds right after one that failed.
C6_Witness ==
    \E t \in Threads :
        /\ RanAlone(t, "update_model")
        /\ ret[t].ok
        /\ hist.prev = [op |-> "update_model", ok |-> FALSE]
        /\ next_model # hist.pre.next_model

\* The service object after (model_name, version) has been loaded into target.
Loaded(s, target, model_name, version) ==
    IF target = "current"
    THEN [s EXCEPT !.current_model = [name |-> model_name, version |-> version],
                   !.current_model_name = model_name,
                   !.current_model_version = version]
    ELSE [s EXCEPT !.next_model = [name |-> model_name, version |-> version],
                   !.next_model_name = model_name,
                   !.next_model_version = version]

\* C7: a successful load changes the target slot to the requested model, name
\* and version and nothing else (the other slot and the probability are as
\* before), which the status then reports; /update-model only ever loads into
\* the next slot.
C7_LoadFrame ==
    /\ \A t \in Threads :
          \A op \in {"load_model", "update_model"} :
              RanAlone(t, op) /\ ret[t].ok =>
                  /\ fr[t].target \in {"current", "next"}
                  /\ op = "update_model" => fr[t].target = "next"
                  /\ Snapshot = Loaded(hist.pre, fr[t].target, fr[t].model_name,
                                       fr[t].version)
    /\ StatusReportsPre

\* An /update-model that put a new model beside a loaded, different current one.
C7_Witness ==
    \E t \in Threads :
        /\ RanAlone(t, "update_model")
        /\ ret[t].ok
        /\ hist.pre.current_model # NoModel
        /\ next_model # hist.pre.next_model
        /\ next_model # current_model
        /\ current_model = hist.pre.current_model

\* A (name, version) pair that is the identity of one model, or of none.
OneIdentity(name, version) ==
    \/ name = None /\ version = None
    \/ <<name, version>> \in Registry

\* C8: every response of /health and / is internally consistent, also when a
\* load or a promote runs beside it: each slot's reported name and version
\* are those of one model, never the name of one with the version of
\* another, and /health never flags a slot as loaded while reporting no
\* identity for it.
C8_StatusConsistent ==
    \A t \in Threads :
        Done(t, "health") \/ Done(t, "root") =>
            /\ OneIdentity(fr[t].current_name, fr[t].current_version)
            /\ OneIdentity(fr[t].next_name, fr[t].next_version)
            /\ Done(t, "health") =>
                  /\ fr[t].current_model_loaded => fr[t].current_name # None
                  /\ fr[t].next_model_loaded => fr[t].next_name # None

\* C9: the name and version a successful predict reports are those of the
\* model that ran the inference, also when a load or a promote runs beside it.
C9_ReportsServedModel ==
    \A t \in Threads :
        Done(t, "predict") /\ ret[t].ok =>
            /\ fr[t].model_used.name = fr[t].served.name
            /\ fr[t].model_used.version = fr[t].served.version

\* C10: when no load and no promote is in progress, each slot's recorded name
\* and version are those of the model the slot holds, however the loads and
\* promotes before overlapped.
C10_SlotIdentity ==
    (\A t \in Threads : fr[t].op \notin LoadOps \cup {"accept_next_model"}) =>
        /\ current_model = [name |-> current_model_name, version |-> current_model_version]
        /\ next_model = [name |-> next_model_name, version |-> next_model_version]

\* The models the loader can return.
Models == {LoadedModel(id[1], id[2]) : id \in Registry}

\* C11: a predict that has found the current slot loaded, given a batch the
\* predictor accepts, completes successfully whatever /update-model does to
\* the next slot meanwhile, and the inference ran on a loaded model (the old
\* or the new next model, or the current one), never on an empty slot; its
\* only failure is the predictor rejecting the batch.
C11_PredictDuringReplace ==
    \A t \in Threads :
        Done(t, "predict") /\ ret[t].detail # "No current model loaded" =>
            IF fr[t].features = "valid"
            THEN /\ ret[t] = Ok200
                 /\ fr[t].served \in Models
                 /\ fr[t].model_used.slot = fr[t].slot
            ELSE ret[t] = Err400("Prediction error")

\* A predict routed to the next slot ran on the model that an /update-model,
\* still in progress on another thread, has meanwhile replaced.
C11_Witness ==
    \E t \in Threads :
        /\ Done(t, "predict")
        /\ ret[t].ok
        /\ fr[t].slot = "next"
        /\ fr[t].served # next_model
        /\ \E u \in Threads : fr[u].op = "update_model" /\ pc[u] \in {"lm_name", "lm_version"}

\* C12: once the current slot holds a model it holds one in every later
\* state, whatever loads, promotions, probability changes and predictions,
\* failed ones included, run and however they interleave; no predict then
\* answers 'No current model loaded', and none that was routed to the current
\* slot runs on an empty one.
C12_CurrentStaysLoaded ==
    [][current_model # NoModel =>
        /\ current_model' # NoModel
        /\ \A t \in Threads :
            /\ pc'[t] = "done" /\ pc[t] # "done" =>
                ret'[t].detail # "No current model loaded"
            /\ pc[t] = "pr_infer" /\ pc'[t] = "pr_name" /\ fr[t].slot = "current" =>
                fr'[t].served # NoModel]_vars

\* The current slot is loaded, a promotion is between its stores, and a
\* load on the other thread has just failed.
C12_Witness ==
    /\ current_model # NoModel
    /\ \E t, u \in Threads :
        /\ Done(t, "update_model") /\ ~ret[t].ok
        /\ fr[u].op = "accept_next_model" /\ pc[u] = "am_name"

\* C13: the routing probability is 1.0 when the service is constructed, is
\* within [0.0, 1.0] in every state, and changes only in a
\* set_canary_probability call that succeeds, to the value the call was given.
C13_ProbabilityRange ==
    /\ canary_probability = ProbOne
    /\ [](ProbZero <= canary_probability /\ canary_probability <= ProbOne)
    /\ [][canary_probability' # canary_probability =>
            \E t \in Threads :
                /\ pc[t] = "idle" /\ pc'[t] = "done"
                /\ fr'[t].op = "set_canary_probability"
                /\ ret'[t] = Ok200
                /\ canary_probability' = fr'[t].probability]_vars

\* The probability has been changed, and a call with a value out of range
\* has just been refused and has left it as it was.
C13_Witness ==
    /\ canary_probability = 5
    /\ \E t \in Threads :
        /\ Done(t, "set_canary_probability")
        /\ fr[t].probability = ProbOne + 1
        /\ ~ret[t].ok

\* A call that has just ended, having run with no other call beside it, in a
\* service whose two slots were both empty when it was entered.
RanUninitialized(t, op) ==
    /\ RanAlone(t, op)
    /\ hist.pre.current_model = NoModel
    /\ hist.pre.next_model = NoModel

\* C14: a promotion that directly follows a successful promotion succeeds too
\* and leaves the service, and so the status, exactly as the first one left it.
C14_PromoteIdempotent ==
    \A t \in Threads :
        /\ RanAlone(t, "accept_next_model")
        /\ hist.prev = [op |-> "accept_next_model", ok |-> TRUE]
        => ret[t] = Ok200 /\ Snapshot = hist.pre

\* The second of two promotions in a row has ended, of a model that was
\* loaded into the next slot after startup.
C14_Witness ==
    \E t \in Threads :
        /\ RanAlone(t, "accept_next_model")
        /\ hist.prev = [op |-> "accept_next_model", ok |-> TRUE]
        /\ ret[t].ok
        /\ current_model = LoadedModel("other-model", "2")

\* C15 as stated: while no slot has been loaded, predict fails with 400 'No
\* current model loaded', runs no predictor and changes nothing, and every
\* other operation but the initial load changes nothing or fails.
C15_UninitializedAllFail ==
    \A t \in Threads :
        /\ RanUninitialized(t, "predict") =>
            /\ ret[t] = Err400("No current model loaded")
            /\ fr[t] = [op |-> "predict"]
            /\ Snapshot = hist.pre
        /\ pc[t] = "done" /\ hist.alone /\ fr[t].op \notin InitialOps
           /\ hist.pre.current_model = NoModel /\ hist.pre.next_model = NoModel =>
            Snapshot = hist.pre \/ ~ret[t].ok

\* C15, amended: while no slot has been loaded, predict fails with 400 'No
\* current model loaded', runs no predictor and changes nothing; a promotion
\* fails with 400 'No next model to accept' and changes nothing; the status
\* calls succeed and change nothing; set_canary_probability and /update-model
\* act as in any other state: a probability in range is stored, a model the
\* registry holds is loaded into the next slot.
C15_Uninitialized ==
    \A t \in Threads :
        /\ RanUninitialized(t, "predict") =>
            /\ ret[t] = Err400("No current model loaded")
            /\ fr[t] = [op |-> "predict"]
            /\ Snapshot = hist.pre
        /\ RanUninitialized(t, "accept_next_model") =>
            /\ ret[t] = Err400("No next model to accept")
            /\ Snapshot = hist.pre
        /\ RanUninitialized(t, "health") \/ RanUninitialized(t, "root") =>
            /\ ret[t] = Ok200
            /\ Snapshot = hist.pre
        /\ RanUninitialized(t, "set_canary_probability") =>
            IF ValidProbability(fr[t].probability)
            THEN /\ ret[t] = Ok200
                 /\ Snapshot = [hist.pre EXCEPT !.canary_probability = fr[t].probability]
            ELSE ~ret[t].ok /\ Snapshot = hist.pre
        /\ RanUninitialized(t, "update_model") =>
            IF ret[t].ok
            THEN Snapshot = Loaded(hist.pre, "next", fr[t].model_name, fr[t].version)
            ELSE Snapshot = hist.pre

\* A predict has been refused in a service whose startup loaded nothing.
C15_Witness ==
    \E t \in Threads :
        /\ RanUninitialized(t, "predict")
        /\ ~ret[t].ok
        /\ hist.prev.op \in {"startup_event", "accept_next_model"}

\* C16 as stated: with the next slot loaded, the current slot empty and the
\* probability 0.0, a predict does not fail for lack of a model: it is served
\* by the next model unless the predictor rejects the batch.
C16_ServedByCandidate ==
    \A t \in Threads :
        /\ RanAlone(t, "predict")
        /\ hist.pre.current_model = NoModel
        /\ hist.pre.next_model # NoModel
        /\ hist.pre.canary_probability = ProbZero
        => \/ ret[t] = Err400("Prediction error")
           \/ ret[t].ok /\ fr[t].served = hist.pre.next_model

\* C16, amended: predict fails for lack of a model exactly when the current
\* slot is empty when it is called, whatever the next slot holds and whatever
\* the probability is; it then answers 400 'No current model loaded' before
\* any draw, and changes nothing.  With the current slot loaded it never fails
\* for lack of a model.
C16_CurrentRequired ==
    \A t \in Threads :
        RanAlone(t, "predict") =>
            IF hist.pre.current_model = NoModel
            THEN /\ ret[t] = Err400("No current model loaded")
                 /\ fr[t] = [op |-> "predict"]
                 /\ Snapshot = hist.pre
            ELSE \/ ret[t].ok /\ fr[t].served # NoModel
                 \/ ret[t] = Err400("Prediction error") /\ fr[t].features = "malformed"

\* A predict has been refused although the next slot is loaded and the
\* probability 0.0 sends every request there.
C16_Witness ==
    \E t \in Threads :
        /\ RanAlone(t, "predict")
        /\ hist.pre.current_model = NoModel
        /\ hist.pre.next_model # NoModel
        /\ hist.pre.canary_probability = ProbZero
        /\ ret[t] = Err400("No current model loaded")

\* C17: a predict leaves the service as it found it, whether it succeeds or
\* fails; a predict with a batch the predictor accepts, directly following a
\* predict that failed in the predictor, succeeds.
C17_PredictNoSideEffect ==
    \A t \in Threads :
        RanAlone(t, "predict") =>
            /\ Snapshot = hist.pre
            /\ /\ hist.prev = [op |-> "predict", ok |-> FALSE]
               /\ hist.pre.current_model # NoModel
               /\ fr[t].features = "valid"
               => ret[t] = Ok200

\* A predict has succeeded directly after one that the predictor failed.
C17_Witness ==
    \E t \in Threads :
        /\ RanAlone(t, "predict")
        /\ hist.prev = [op |-> "predict", ok |-> FALSE]
        /\ hist.pre.current_model # NoModel
        /\ ret[t].ok
        /\ Snapshot = hist.pre

\* In the service as s records it, both slots hold the same model under the
\* same name and version.
SlotsAgree(s) ==
    /\ s.current_model # NoModel
    /\ s.next_model = s.current_model
    /\ s.next_model_name = s.current_model_name
    /\ s.next_model_version = s.current_model_version

\* C18: after a successful promotion of the model B of the next slot both
\* slots hold B under B's name and version; every call that is not a load
\* leaves them so; and a predict then answers with B's name and version and
\* runs on B, whatever the probability and the draw are.
C18_PromotedServes ==
    \A t \in Threads :
        /\ RanAlone(t, "accept_next_model") /\ ret[t].ok =>
            /\ SlotsAgree(Snapshot)
            /\ current_model = hist.pre.next_model
            /\ current_model_name = hist.pre.next_model_name
            /\ current_model_version = hist.pre.next_model_version
        /\ pc[t] = "done" /\ hist.alone /\ fr[t].op \notin LoadOps /\ SlotsAgree(hist.pre) =>
            Snapshot = [hist.pre EXCEPT !.canary_probability = canary_probability]
        /\ RanAlone(t, "predict") /\ SlotsAgree(hist.pre) /\ fr[t].features = "valid" =>
            /\ ret[t] = Ok200
            /\ fr[t].served = hist.pre.current_model
            /\ fr[t].model_used.name = hist.pre.current_model_name
            /\ fr[t].model_used.version = hist.pre.current_model_version
            /\ fr[t].served = LoadedModel(fr[t].model_used.name, fr[t].model_used.version)

\* Directly after the promotion of other-model v2, loaded after startup, a
\* predict whose draw sent it to the next slot has answered with that model.
C18_Witness ==
    \E t \in Threads :
        /\ RanAlone(t, "predict")
        /\ hist.prev = [op |-> "accept_next_model", ok |-> TRUE]
        /\ ret[t].ok
        /\ fr[t].slot = "next"
        /\ fr[t].model_used.name = "other-model"
        /\ fr[t].served = LoadedModel("other-model", "2")

\* C19: a call of load_initial_models that directly follows a successful
\* initialization fails and leaves both slots as they were.
C19_InitializeOnce ==
    \A t \in Threads :
        /\ RanAlone(t, "load_initial_models")
        /\ hist.prev.op \in InitialOps
        /\ hist.prev.ok
        => ~ret[t].ok /\ Snapshot = hist.pre

\* C21: an initial load that reports failure, in a service whose slots were
\* both empty, has changed nothing; and a predict that directly follows a
\* failed startup fails.
C21_InitializeAllOrNothing ==
    \A t \in Threads :
        /\ pc[t] = "done" /\ hist.alone /\ fr[t].op \in InitialOps
           /\ hist.pre.current_model = NoModel /\ hist.pre.next_model = NoModel
           /\ ~ret[t].ok
           => Snapshot = hist.pre
        /\ RanAlone(t, "predict") /\ hist.prev = [op |-> "startup_event", ok |-> FALSE]
           => ~ret[t].ok

\* No call is in progress.
Quiescent == \A t \in Threads : pc[t] \in {"idle", "done"}

\* A slot's three attributes are empty together, and otherwise the recorded
\* name and version are those the model was loaded with.
SlotConsistent(model, name, version) ==
    /\ (model = NoModel) <=> (name = None)
    /\ (name = None) <=> (version = None)
    /\ model # NoModel => model = LoadedModel(name, version)

\* C22: when calls run one at a time, in every state between two calls each
\* slot's model, name and version are empty together, and a loaded slot
\* records the name and version its model was loaded with, also for the
\* current slot after a promotion.
C22_SlotsConsistentSequential ==
    Quiescent =>
        /\ SlotConsistent(current_model, current_model_name, current_model_version)
        /\ SlotConsistent(next_model, next_model_name, next_model_version)

\* A model loaded into the next slot after startup has just been promoted:
\* the current slot holds it under its name and version.
C22_Witness ==
    /\ \E t \in Threads : RanAlone(t, "accept_next_model") /\ ret[t].ok
    /\ hist.pre.current_model # hist.pre.next_model
    /\ current_model = LoadedModel("other-model", "2")
    /\ current_model_name = "other-model"
    /\ current_model_version = "2"

\* C23: load_model called with a target other than 'current' or 'next'
\* returns False and leaves both slots, their names and versions and the
\* probability as they were, also when the loader returned a model.
C23_InvalidTarget ==
    \A t \in Threads :
        RanAlone(t, "load_model") /\ fr[t].target \notin {"current", "next"} =>
            /\ ret[t] = Returned(FALSE)
            /\ Snapshot = hist.pre

\* load_model('other-model', '2', 'staging') has returned False after the
\* loader returned the model, in a service that serves another model.
C23_Witness ==
    \E t \in Threads :
        /\ RanAlone(t, "load_model")
        /\ fr[t].target = "staging"
        /\ fr[t].model = LoadedModel("other-model", "2")
        /\ ~ret[t].ok
        /\ current_model = LoadedModel("tracking-quickstart", "1")

====
